---- MODULE Spec2Model ----
(***************************************************************************)
(* Model of the application state store of the Mini Seller Console         *)
(* (src/src/context/AppContext.jsx): the reducer, the asynchronous         *)
(* updateLead and convertLeadToOpportunity workflows with their simulated  *)
(* remote calls, the initial loads and the synchronous action creators.    *)
(*                                                                         *)
(* JavaScript runs one task at a time: every action below is one task      *)
(* (an invocation up to its first await, or the continuation after an      *)
(* await).  Continuations that are queued as microtasks run before any     *)
(* other task, which the guard NoMicrotask expresses.                      *)
(*                                                                         *)
(* The specifications share the actions:                                   *)
(*   Spec       the store and its asynchronous workflows, without time     *)
(*              (FairSpec: with the scheduling of its continuations)       *)
(*   TimerSpec  the error field with the auto-clear timeout and a clock    *)
(*   FilterSpec the filter criteria and their copy in localStorage         *)
(*   ViewSpec   the list derived by LeadsList from records and criteria    *)
(*   CardSpec   the edit form of a lead card over the store               *)
(***************************************************************************)
EXTENDS Integers, Sequences, FiniteSets, TLC

(***************************************************************************)
(* Bounds of the model                                                     *)
(***************************************************************************)
\* number of asynchronous operations (updateLead / convert calls that reach
\* their simulated remote call) started in one behaviour
MaxOps == 2

\* number of records in a collection that LeadsList is given
MaxLeads == 3

Slots == 1..MaxOps

(***************************************************************************)
(* Data                                                                    *)
(***************************************************************************)
\* JavaScript null for the error field
Null == "null"

\* JavaScript null / undefined for a lead (selectedLead: null, find: undefined)
NoLead == [id |-> "none", name |-> "", company |-> "", email |-> "",
           score |-> 0, status |-> ""]

\* the records served by /leads.json (the two leads of the test fixture;
\* the source label, which no operation reads or writes, is left out)
LeadsJson ==
  << [id |-> "1", name |-> "Elizabeth Bennet", company |-> "Pride and Prejudice Ltd",
      email |-> "elizabeth@prideandprejudice.com", score |-> 95, status |-> "new"],
     [id |-> "2", name |-> "Fitzwilliam Darcy", company |-> "Pride and Prejudice Ltd",
      email |-> "darcy@prideandprejudice.com", score |-> 92, status |-> "contacted"] >>

\* the records served by /opportunities.json: lead "2" is already converted
OpportunitiesJson ==
  << [id |-> 0, name |-> <<"Pride and Prejudice Ltd", " - Sales Opportunity">>,
      stage |-> "proposal", accountName |-> "Pride and Prejudice Ltd",
      leadId |-> "2", probability |-> 92] >>

\* ids a caller may pass: the two loaded records and one that matches nothing
LeadIds == {"1", "2", "9"}

\* partial field sets a caller may pass to updateLead: the card's edit form
\* sends {status, email}; the store accepts any subset of fields
UpdateSets ==
  { [status |-> "contacted", email |-> "lizzy@longbourn.org"],
    [company |-> "Pemberley", score |-> 50] }

\* the filter criteria of a session whose storage holds none
DefaultFilters ==
  [search |-> "", status |-> "all", sortBy |-> "score", sortOrder |-> "desc"]

\* localStorage.getItem returns null: nothing is stored under the key
NoItem == [kind |-> "null", members |-> <<>>]

\* the delay of the auto-clear timeout in milliseconds
AutoClearMs == 5000

\* no auto-clear timeout is pending
NoTimer == -1

(***************************************************************************)
(* State                                                                   *)
(***************************************************************************)
VARIABLES
  state,      \* the reducer state: leads, opportunities, selectedLead,
              \* isLoading, error, filters
  calls,      \* the asynchronous operations in flight, one slot each
  nOps,       \* number of slots used so far
  loadLeads,  \* position of the loadLeads effect: "init", "fetching", "done"
  loadOpps,   \* position of the loadOpportunities effect
  last,       \* the task that produced the current state (history variable)
  storage,    \* localStorage: the item under 'seller_console_filters'
  timer,      \* milliseconds until the pending auto-clear timeout fires
  errorLog,   \* the most recent SET_ERROR dispatch (history variable)
  view,       \* filteredLeads as LeadsList rendered it last
  card        \* the edit form of the lead cards (LeadsList, LeadCard)

vars == <<state, calls, nOps, loadLeads, loadOpps, last,
          storage, timer, errorLog, view, card>>

\* what Spec abstracts from: storage, the clock, the rendered list and the
\* edit form
env == <<storage, timer, errorLog, view, card>>

\* errorLog before any SET_ERROR: message is the payload of the most recent
\* SET_ERROR dispatch, age the milliseconds since it, own tells that the
\* pending timeout was created by the effect run that followed it, quiet
\* that no task other than the timeout's callback has run since
NoErrorYet == [message |-> Null, age |-> 0, own |-> TRUE, quiet |-> FALSE]

\* no card is in edit mode: editingLead of LeadsList is null, and the form
\* state of a card (editData, errors) is written by handleEdit before the
\* card shows it
NoCard == [editingLead |-> Null, editData |-> [status |-> "", email |-> ""],
           errors |-> [email |-> Null]]

\* an unused slot
Idle == [kind |-> "idle", pc |-> "idle", id |-> "none", updates |-> <<>>,
         optimistic |-> FALSE, originalLead |-> NoLead, lead |-> NoLead,
         result |-> "", pre |-> NoLead, alone |-> TRUE, solo |-> TRUE,
         settled |-> TRUE, n0 |-> 0]

(***************************************************************************)
(* JavaScript helpers                                                      *)
(***************************************************************************)
\* { ...obj, ...updates }
Spread(obj, updates) ==
  [f \in DOMAIN obj \cup DOMAIN updates |->
     IF f \in DOMAIN updates THEN updates[f] ELSE obj[f]]

\* array.find(x => x.id === id), undefined as NoLead
RECURSIVE FindLead(_, _)
FindLead(leads, id) ==
  IF leads = <<>> THEN NoLead
  ELSE IF Head(leads).id = id THEN Head(leads)
  ELSE FindLead(Tail(leads), id)

\* variant: the scan compares the wrong field of the opportunity
HasOpportunity_ByAccount(opportunities, leadId) ==
  \E i \in 1..Len(opportunities) : opportunities[i].accountName = leadId

\* state.opportunities.find(opp => opp.leadId === leadId) is not undefined
HasOpportunity(opportunities, leadId) ==
  \E i \in 1..Len(opportunities) : opportunities[i].leadId = leadId

(***************************************************************************)
(* The reducer                                                             *)
(***************************************************************************)
appReducer(s, action) ==
  CASE action.type = "SET_LEADS" ->
         [s EXCEPT !.leads = action.payload, !.isLoading = FALSE]
    [] action.type = "SET_OPPORTUNITIES" ->
         [s EXCEPT !.opportunities = action.payload]
    [] action.type = "SET_LOADING" ->
         [s EXCEPT !.isLoading = action.payload]
    [] action.type = "SET_ERROR" ->
         [s EXCEPT !.error = action.payload, !.isLoading = FALSE]
    [] action.type = "SET_SELECTED_LEAD" ->
         [s EXCEPT !.selectedLead = action.payload]
    [] action.type = "CLEAR_ERROR" ->
         [s EXCEPT !.error = Null]
    [] action.type = "UPDATE_LEAD" ->
         [s EXCEPT
            !.leads = [i \in 1..Len(s.leads) |->
                         IF s.leads[i].id = action.payload.id
                         THEN Spread(s.leads[i], action.payload.updates)
                         ELSE s.leads[i]],
            !.selectedLead = IF s.selectedLead.id = action.payload.id
                             THEN Spread(s.selectedLead, action.payload.updates)
                             ELSE s.selectedLead]
    [] action.type = "ADD_OPPORTUNITY" ->
         [s EXCEPT !.opportunities = Append(s.opportunities, action.payload)]
    [] action.type = "SET_FILTERS" ->
         [s EXCEPT !.filters = Spread(s.filters, action.payload)]
    [] action.type = "UPDATE_LEAD_ROLLBACK" ->
         [s EXCEPT
            !.leads = [i \in 1..Len(s.leads) |->
                         IF s.leads[i].id = action.payload.id
                         THEN action.payload.originalLead
                         ELSE s.leads[i]],
            !.selectedLead = IF s.selectedLead.id = action.payload.id
                             THEN action.payload.originalLead
                             ELSE s.selectedLead]
    [] OTHER -> s

\* variant: UPDATE_LEAD merges into the collection only, not into the
\* selected record
Dispatch_NoMirror(s, type, payload) ==
  LET reduced == appReducer(s, [type |-> type, payload |-> payload])
  IN IF type = "UPDATE_LEAD"
     THEN [reduced EXCEPT !.selectedLead = s.selectedLead]
     ELSE reduced

\* variant: UPDATE_LEAD_ROLLBACK installs the snapshot as the selected
\* record whatever record is selected
Dispatch_RollbackSelects(s, type, payload) ==
  LET reduced == appReducer(s, [type |-> type, payload |-> payload])
  IN IF type = "UPDATE_LEAD_ROLLBACK" /\ s.selectedLead # NoLead
     THEN [reduced EXCEPT !.selectedLead = payload.originalLead]
     ELSE reduced

Dispatch(s, type, payload) == appReducer(s, [type |-> type, payload |-> payload])

(***************************************************************************)
(* Construction                                                            *)
(***************************************************************************)
Init ==
  /\ state = [leads |-> <<>>, opportunities |-> <<>>, selectedLead |-> NoLead,
              isLoading |-> FALSE, error |-> Null, filters |-> DefaultFilters]
  /\ calls = [s \in Slots |-> Idle]
  /\ nOps = 0
  /\ loadLeads = "init"
  /\ loadOpps = "init"
  /\ last = [kind |-> "init", slot |-> 0, id |-> "none", call |-> Idle]
  /\ storage = NoItem
  /\ timer = NoTimer
  /\ errorLog = NoErrorYet
  /\ view = <<>>
  /\ card = NoCard

Event(kind, slot, id, call) == [kind |-> kind, slot |-> slot, id |-> id, call |-> call]

\* no continuation is queued as a microtask
NoMicrotask == \A s \in Slots : calls[s].pc # "ret"

\* the record has an update in flight in slot s: an updateLead call, or the
\* updateLead that a conversion has invoked
UpdateInFlight(s, id) ==
  /\ calls[s].id = id
  /\ \/ calls[s].kind = "update"
     \/ calls[s].kind = "convert" /\ calls[s].pc \in {"call2", "ret"}

InFlight(s) == calls[s].kind # "idle"

\* History fields of a call (they feed no guard and no assignment of the
\* program state):
\*   pre     the record as it was when the call was invoked
\*   n0      the number of opportunities when the call was invoked
\*   alone   no other update of the same record has been in flight during
\*           the call so far
\*   solo    no other asynchronous operation has been in flight during the
\*           call so far
\*   settled the initial opportunity load had completed when the call was
\*           invoked
\* the other calls when an update of record id comes into flight (newUpdate)
\* or a new asynchronous operation starts (newOp)
Overlapped(id, newUpdate, newOp) ==
  [s \in Slots |->
     IF ~InFlight(s) THEN calls[s]
     ELSE [calls[s] EXCEPT
             !.alone = IF newUpdate /\ calls[s].id = id THEN FALSE ELSE @,
             !.solo = IF newOp THEN FALSE ELSE @]]

(***************************************************************************)
(* Initial loads (the two mount effects)                                   *)
(***************************************************************************)
\* both effects run when the provider is mounted: loadLeads dispatches
\* SET_LOADING true and awaits its fetch, loadOpportunities awaits its fetch
Mount ==
  /\ loadLeads = "init"
  /\ state' = Dispatch(state, "SET_LOADING", TRUE)
  /\ loadLeads' = "fetching"
  /\ loadOpps' = "fetching"
  /\ last' = Event("mount", 0, "none", Idle)
  /\ UNCHANGED <<calls, nOps>>

\* variant: loadLeads has no catch block, the rejection escapes the effect
LoadLeadsResolve_Unhandled(ok) ==
  /\ loadLeads = "fetching"
  /\ NoMicrotask
  /\ state' = IF ok THEN Dispatch(state, "SET_LEADS", LeadsJson) ELSE state
  /\ loadLeads' = "done"
  /\ last' = Event(IF ok THEN "leadsLoaded" ELSE "leadsFailed", 0, "none", Idle)
  /\ UNCHANGED <<calls, nOps, loadOpps>>

\* the continuation of loadLeads: the fetch and its JSON parse succeeded
\* (ok) or one of them threw
LoadLeadsResolve(ok) ==
  /\ loadLeads = "fetching"
  /\ NoMicrotask
  /\ state' = IF ok THEN Dispatch(state, "SET_LEADS", LeadsJson)
                    ELSE Dispatch(state, "SET_ERROR", "Failed to load leads")
  /\ loadLeads' = "done"
  /\ last' = Event(IF ok THEN "leadsLoaded" ELSE "leadsFailed", 0, "none", Idle)
  /\ UNCHANGED <<calls, nOps, loadOpps>>

\* variant: the failure of the opportunity fetch is reported like the one of
\* the lead fetch
LoadOpportunitiesResolve_Reported(ok) ==
  /\ loadOpps = "fetching"
  /\ NoMicrotask
  /\ state' = IF ok THEN Dispatch(state, "SET_OPPORTUNITIES", OpportunitiesJson)
                    ELSE Dispatch(state, "SET_ERROR", "Failed to load opportunities")
  /\ loadOpps' = "done"
  /\ last' = Event(IF ok THEN "oppsLoaded" ELSE "oppsFailed", 0, "none", Idle)
  /\ UNCHANGED <<calls, nOps, loadLeads>>

\* the continuation of loadOpportunities: a failure is only logged
LoadOpportunitiesResolve(ok) ==
  /\ loadOpps = "fetching"
  /\ NoMicrotask
  /\ state' = IF ok THEN Dispatch(state, "SET_OPPORTUNITIES", OpportunitiesJson)
                    ELSE state
  /\ loadOpps' = "done"
  /\ last' = Event(IF ok THEN "oppsLoaded" ELSE "oppsFailed", 0, "none", Idle)
  /\ UNCHANGED <<calls, nOps, loadLeads>>

(***************************************************************************)
(* updateLead                                                              *)
(***************************************************************************)
\* the state after the synchronous part of updateLead for a record that was
\* found: the optimistic path dispatches UPDATE_LEAD at once
UpdateLeadBegin(s, leadId, updates, optimistic) ==
  IF optimistic
  THEN Dispatch(s, "UPDATE_LEAD", [id |-> leadId, updates |-> updates])
  ELSE s

\* variant: the catch block surfaces the error without rolling back
UpdateLeadSettle_NoRollback(s, c, ok) ==
  IF ok
  THEN IF ~c.optimistic
       THEN Dispatch(s, "UPDATE_LEAD", [id |-> c.id, updates |-> c.updates])
       ELSE s
  ELSE Dispatch(s, "SET_ERROR", "Lead upgrade failed")

\* variant: UPDATE_LEAD is dispatched after every successful call, also
\* after an optimistic one
UpdateLeadSettle_AlwaysApply(s, c, ok) ==
  IF ok
  THEN Dispatch(s, "UPDATE_LEAD", [id |-> c.id, updates |-> c.updates])
  ELSE LET rolled == IF c.optimistic
                     THEN Dispatch(s, "UPDATE_LEAD_ROLLBACK",
                                   [id |-> c.id, originalLead |-> c.originalLead])
                     ELSE s
       IN Dispatch(rolled, "SET_ERROR", "Lead upgrade failed")

\* variant: a successful pessimistic call applies nothing
UpdateLeadSettle_SkipApply(s, c, ok) ==
  IF ok
  THEN s
  ELSE LET rolled == IF c.optimistic
                     THEN Dispatch(s, "UPDATE_LEAD_ROLLBACK",
                                   [id |-> c.id, originalLead |-> c.originalLead])
                     ELSE s
       IN Dispatch(rolled, "SET_ERROR", "Lead upgrade failed")

\* variant: the catch block rolls back whether or not the update was
\* optimistic
UpdateLeadSettle_AlwaysRollback(s, c, ok) ==
  IF ok
  THEN IF ~c.optimistic
       THEN Dispatch(s, "UPDATE_LEAD", [id |-> c.id, updates |-> c.updates])
       ELSE s
  ELSE Dispatch(Dispatch(s, "UPDATE_LEAD_ROLLBACK",
                         [id |-> c.id, originalLead |-> c.originalLead]),
                "SET_ERROR", "Lead upgrade failed")

\* the state after the continuation of updateLead for call c: the simulated
\* call resolved (ok) or rejected with 'Lead upgrade failed'
UpdateLeadSettle(s, c, ok) ==
  IF ok
  THEN IF ~c.optimistic
       THEN Dispatch(s, "UPDATE_LEAD", [id |-> c.id, updates |-> c.updates])
       ELSE s
  ELSE LET rolled == IF c.optimistic
                     THEN Dispatch(s, "UPDATE_LEAD_ROLLBACK",
                                   [id |-> c.id, originalLead |-> c.originalLead])
                     ELSE s
       IN Dispatch(rolled, "SET_ERROR", "Lead upgrade failed")

\* updateLead(leadId, updates, {optimistic}) up to its await
UpdateLeadCall(leadId, updates, optimistic) ==
  LET originalLead == FindLead(state.leads, leadId) IN
  /\ NoMicrotask
  /\ \/ /\ originalLead = NoLead
        /\ state' = Dispatch(state, "SET_ERROR", "Lead não encontrado")
        /\ last' = Event("updateNotFound", 0, leadId, Idle)
        /\ UNCHANGED <<calls, nOps>>
     \/ /\ originalLead # NoLead
        /\ nOps < MaxOps
        /\ state' = UpdateLeadBegin(state, leadId, updates, optimistic)
        /\ nOps' = nOps + 1
        /\ calls' = [Overlapped(leadId, TRUE, TRUE) EXCEPT ![nOps + 1] =
                       [kind |-> "update", pc |-> "call", id |-> leadId,
                        updates |-> updates, optimistic |-> optimistic,
                        originalLead |-> originalLead, lead |-> NoLead,
                        result |-> "",
                        pre |-> FindLead(state.leads, leadId),
                        alone |-> \A s \in Slots : ~UpdateInFlight(s, leadId),
                        solo |-> \A s \in Slots : ~InFlight(s),
                        settled |-> loadOpps = "done",
                        n0 |-> Len(state.opportunities)]]
        /\ last' = Event("updateStart", nOps + 1, leadId, calls'[nOps + 1])
  /\ UNCHANGED <<loadLeads, loadOpps>>

\* the continuation of updateLead after its simulated call (1000 ms timer):
\* resolved (ok) or rejected with 'Lead upgrade failed'
UpdateLeadResolve(slot, ok) ==
  LET c == calls[slot] IN
  /\ c.kind = "update" /\ c.pc = "call"
  /\ NoMicrotask
  /\ state' = UpdateLeadSettle(state, c, ok)
  /\ calls' = [calls EXCEPT ![slot] = Idle]
  /\ last' = Event(IF ok THEN "updateOk" ELSE "updateFail", slot, c.id, c)
  /\ UNCHANGED <<nOps, loadLeads, loadOpps>>

(***************************************************************************)
(* convertLeadToOpportunity                                                *)
(***************************************************************************)
\* variant: the account name is taken from the contact instead of the company
NewOpportunity_FromName(lead, leadId, uuid) ==
  [id |-> uuid, name |-> <<lead.company, " - Sales Opportunity">>,
   stage |-> "qualification", accountName |-> lead.name,
   leadId |-> leadId, probability |-> lead.score]

\* the opportunity built from the lead captured by the closure; the uuid
\* of addOpportunity is modelled by the (unique) number of the call; amount
\* and expectedCloseDate (random / wall clock) are not modelled
NewOpportunity(lead, leadId, uuid) ==
  [id |-> uuid, name |-> <<lead.company, " - Sales Opportunity">>,
   stage |-> "qualification", accountName |-> lead.company,
   leadId |-> leadId, probability |-> lead.score]

\* variant: the catch block clears the loading flag without surfacing the
\* error
ConvertCatch_Swallow(s, message) ==
  Dispatch(s, "SET_LOADING", FALSE)

\* the catch block of convertLeadToOpportunity
ConvertCatch(s, message) ==
  Dispatch(Dispatch(s, "SET_ERROR", message), "SET_LOADING", FALSE)

\* variant: the duplicate check runs before the lookup
ConvertCall_DuplicateFirst(leadId) ==
  LET lead == FindLead(state.leads, leadId) IN
  /\ NoMicrotask
  /\ \/ /\ HasOpportunity(state.opportunities, leadId)
        /\ state' = Dispatch(state, "SET_ERROR", "Lead already converted into opportunity")
        /\ last' = Event("alreadyConverted", 0, leadId, Idle)
        /\ UNCHANGED <<calls, nOps>>
     \/ /\ ~HasOpportunity(state.opportunities, leadId)
        /\ lead = NoLead
        /\ state' = Dispatch(state, "SET_ERROR", "Lead not found")
        /\ last' = Event("convertNotFound", 0, leadId, Idle)
        /\ UNCHANGED <<calls, nOps>>
     \/ /\ ~HasOpportunity(state.opportunities, leadId)
        /\ lead # NoLead
        /\ nOps < MaxOps
        /\ state' = Dispatch(state, "SET_LOADING", TRUE)
        /\ nOps' = nOps + 1
        /\ calls' = [Overlapped(leadId, FALSE, TRUE) EXCEPT ![nOps + 1] =
                       [kind |-> "convert", pc |-> "call1", id |-> leadId,
                        updates |-> [status |-> "qualified"], optimistic |-> FALSE,
                        originalLead |-> NoLead, lead |-> lead,
                        result |-> "",
                        pre |-> FindLead(state.leads, leadId),
                        alone |-> \A s \in Slots : ~UpdateInFlight(s, leadId),
                        solo |-> \A s \in Slots : ~InFlight(s),
                        settled |-> loadOpps = "done",
                        n0 |-> Len(state.opportunities)]]
        /\ last' = Event("convertStart", nOps + 1, leadId, calls'[nOps + 1])
  /\ UNCHANGED <<loadLeads, loadOpps>>

\* convertLeadToOpportunity(leadId) up to its first await
ConvertCall(leadId) ==
  LET lead == FindLead(state.leads, leadId) IN
  /\ NoMicrotask
  /\ \/ /\ lead = NoLead
        /\ state' = Dispatch(state, "SET_ERROR", "Lead not found")
        /\ last' = Event("convertNotFound", 0, leadId, Idle)
        /\ UNCHANGED <<calls, nOps>>
     \/ /\ lead # NoLead
        /\ HasOpportunity(state.opportunities, leadId)
        /\ state' = Dispatch(state, "SET_ERROR", "Lead already converted into opportunity")
        /\ last' = Event("alreadyConverted", 0, leadId, Idle)
        /\ UNCHANGED <<calls, nOps>>
     \/ /\ lead # NoLead
        /\ ~HasOpportunity(state.opportunities, leadId)
        /\ nOps < MaxOps
        /\ state' = Dispatch(state, "SET_LOADING", TRUE)
        /\ nOps' = nOps + 1
        /\ calls' = [Overlapped(leadId, FALSE, TRUE) EXCEPT ![nOps + 1] =
                       [kind |-> "convert", pc |-> "call1", id |-> leadId,
                        updates |-> [status |-> "qualified"], optimistic |-> FALSE,
                        originalLead |-> NoLead, lead |-> lead,
                        result |-> "",
                        pre |-> FindLead(state.leads, leadId),
                        alone |-> \A s \in Slots : ~UpdateInFlight(s, leadId),
                        solo |-> \A s \in Slots : ~InFlight(s),
                        settled |-> loadOpps = "done",
                        n0 |-> Len(state.opportunities)]]
        /\ last' = Event("convertStart", nOps + 1, leadId, calls'[nOps + 1])
  /\ UNCHANGED <<loadLeads, loadOpps>>

\* the continuation after the first simulated call (1500 ms timer).
\* Rejected: the catch block dispatches SET_ERROR and SET_LOADING false.
\* Resolved: addOpportunity, then updateLead(leadId, {status: 'qualified'},
\* {optimistic: false}) runs up to its own await.  That updateLead is the
\* one captured by the closure, so its state.leads is the array in which
\* lead was found: its lookup succeeds with that same lead and, being
\* pessimistic, it dispatches nothing before its simulated call.
ConvertResolve1(slot, ok) ==
  LET c == calls[slot] IN
  /\ c.kind = "convert" /\ c.pc = "call1"
  /\ NoMicrotask
  /\ IF ok
     THEN /\ state' = UpdateLeadBegin(
                         Dispatch(state, "ADD_OPPORTUNITY",
                                  NewOpportunity(c.lead, c.id, slot)),
                         c.id, c.updates, FALSE)
          /\ calls' = [Overlapped(c.id, TRUE, FALSE) EXCEPT ![slot] =
                         [c EXCEPT !.pc = "call2", !.originalLead = c.lead]]
          /\ last' = Event("convertAdded", slot, c.id, calls'[slot])
     ELSE /\ state' = ConvertCatch(state, "Failed to convert lead")
          /\ calls' = [calls EXCEPT ![slot] = Idle]
          /\ last' = Event("convertFailed", slot, c.id, c)
  /\ UNCHANGED <<nOps, loadLeads, loadOpps>>

\* the continuation of the nested updateLead after its simulated call:
\* UPDATE_LEAD on success, SET_ERROR on failure (nothing is rethrown); the
\* conversion then resumes in a microtask
ConvertResolve2(slot, ok) ==
  LET c == calls[slot] IN
  /\ c.kind = "convert" /\ c.pc = "call2"
  /\ NoMicrotask
  /\ state' = UpdateLeadSettle(state, c, ok)
  /\ calls' = [calls EXCEPT ![slot] =
                 [c EXCEPT !.pc = "ret", !.result = IF ok THEN "ok" ELSE "failed"]]
  /\ last' = Event(IF ok THEN "statusUpdated" ELSE "statusFailed", slot, c.id, calls'[slot])
  /\ UNCHANGED <<nOps, loadLeads, loadOpps>>

\* variant: the success path returns without clearing the loading flag
ConvertFinish_KeepLoading(s) == s

\* the last statement of the try block of convertLeadToOpportunity
ConvertFinish(s) == Dispatch(s, "SET_LOADING", FALSE)

\* the conversion resumes after `await updateLead(...)`
ConvertReturn(slot) ==
  LET c == calls[slot] IN
  /\ c.kind = "convert" /\ c.pc = "ret"
  /\ state' = ConvertFinish(state)
  /\ calls' = [calls EXCEPT ![slot] = Idle]
  /\ last' = Event("convertDone", slot, c.id, c)
  /\ UNCHANGED <<nOps, loadLeads, loadOpps>>

(***************************************************************************)
(* Synchronous action creators                                             *)
(***************************************************************************)
\* setSelectedLead(lead): a card passes its record (App.jsx shows the modal
\* panel over the cards while a lead is selected), the panel's close
\* handlers pass null
SetSelectedLead(lead) ==
  /\ NoMicrotask
  /\ (lead = NoLead) = (state.selectedLead # NoLead)
  /\ state' = Dispatch(state, "SET_SELECTED_LEAD", lead)
  /\ last' = Event("select", 0, lead.id, Idle)
  /\ UNCHANGED <<calls, nOps, loadLeads, loadOpps>>

\* clearError(): the dismiss button or the auto-clear timer, both of which
\* exist only while an error is displayed
ClearError ==
  /\ NoMicrotask
  /\ state.error # Null
  /\ state' = Dispatch(state, "CLEAR_ERROR", Null)
  /\ last' = Event("clearError", 0, "none", Idle)
  /\ UNCHANGED <<calls, nOps, loadLeads, loadOpps>>

(***************************************************************************)
(* Specification                                                           *)
(***************************************************************************)
\* the store without time, storage and rendering: ClearError stands for the
\* dismiss button and for the callback of the auto-clear timeout
Next ==
  \/ Mount /\ UNCHANGED env
  \/ \E ok \in BOOLEAN : LoadLeadsResolve(ok) /\ UNCHANGED env
  \/ \E ok \in BOOLEAN : LoadOpportunitiesResolve(ok) /\ UNCHANGED env
  \/ \E id \in LeadIds, u \in UpdateSets, o \in BOOLEAN :
       UpdateLeadCall(id, u, o) /\ UNCHANGED env
  \/ \E s \in Slots, ok \in BOOLEAN : UpdateLeadResolve(s, ok) /\ UNCHANGED env
  \/ \E id \in LeadIds : ConvertCall(id) /\ UNCHANGED env
  \/ \E s \in Slots, ok \in BOOLEAN : ConvertResolve1(s, ok) /\ UNCHANGED env
  \/ \E s \in Slots, ok \in BOOLEAN : ConvertResolve2(s, ok) /\ UNCHANGED env
  \/ \E s \in Slots : ConvertReturn(s) /\ UNCHANGED env
  \/ \E i \in 1..Len(state.leads) :
       SetSelectedLead(state.leads[i]) /\ UNCHANGED env
  \/ SetSelectedLead(NoLead) /\ UNCHANGED env
  \/ ClearError /\ UNCHANGED env

Spec == Init /\ [][Next]_vars

\* Scheduling: the mount effects run, the fetches complete, every timer of
\* a simulated call fires (setTimeout, 1000 ms or 1500 ms) and every queued
\* continuation runs
FairSpec ==
  /\ Spec
  /\ WF_vars(Mount /\ UNCHANGED env)
  /\ WF_vars(\E ok \in BOOLEAN : LoadLeadsResolve(ok) /\ UNCHANGED env)
  /\ WF_vars(\E ok \in BOOLEAN : LoadOpportunitiesResolve(ok) /\ UNCHANGED env)
  /\ \A s \in Slots :
       /\ WF_vars(\E ok \in BOOLEAN : UpdateLeadResolve(s, ok) /\ UNCHANGED env)
       /\ WF_vars(\E ok \in BOOLEAN : ConvertResolve1(s, ok) /\ UNCHANGED env)
       /\ WF_vars(\E ok \in BOOLEAN : ConvertResolve2(s, ok) /\ UNCHANGED env)
       /\ WF_vars(ConvertReturn(s) /\ UNCHANGED env)

(***************************************************************************)
(* The auto-clear timeout (TimerSpec)                                      *)
(***************************************************************************)
\* the tasks that dispatch SET_ERROR
SetErrorKinds ==
  {"leadsFailed", "updateNotFound", "updateFail", "convertNotFound",
   "alreadyConverted", "convertFailed", "statusFailed"}

\* the effect with dependency [state.error], after a commit that took the
\* error field from `before` to `after` while `pending` milliseconds were
\* left on the timeout: React runs the cleanup (clearTimeout) and the body
\* (setTimeout when the error is truthy) only if the dependency changed
AutoClearEffect(before, after, pending) ==
  IF after = before THEN pending
  ELSE IF after # Null THEN AutoClearMs
  ELSE NoTimer

\* the commit that ends a task of the store: the effect runs, and errorLog
\* records whether the task dispatched SET_ERROR
Committed ==
  /\ timer' = AutoClearEffect(state.error, state'.error, timer)
  /\ errorLog' = IF last'.kind \in SetErrorKinds
                 THEN [message |-> state'.error, age |-> 0,
                       own |-> state'.error # state.error, quiet |-> TRUE]
                 ELSE [errorLog EXCEPT !.quiet = FALSE]
  /\ UNCHANGED <<storage, view, card>>

\* the callback of the timeout: clearError(), then the commit
AutoClearFires ==
  /\ timer = 0
  /\ NoMicrotask
  /\ state' = Dispatch(state, "CLEAR_ERROR", Null)
  /\ last' = Event("autoClear", 0, "none", Idle)
  /\ timer' = AutoClearEffect(state.error, state'.error, NoTimer)
  /\ UNCHANGED <<calls, nOps, loadLeads, loadOpps, storage, errorLog, view,
                 card>>

\* lapses of time between two tasks: a second (the delay of a simulated
\* call), one millisecond less than the timeout, or up to the timeout
Delays == {1000, 4999}

\* d milliseconds pass; a due timeout fires before more time passes
Advance(d) ==
  /\ timer # NoTimer
  /\ d > 0
  /\ d <= timer
  /\ timer' = timer - d
  /\ errorLog' = [errorLog EXCEPT !.age = @ + d]
  /\ UNCHANGED <<state, calls, nOps, loadLeads, loadOpps, last, storage, view,
                 card>>

\* an id that no record has: updateLead and convertLeadToOpportunity report
\* it at once, with two different messages
MissingId == "9"

TimerNext ==
  \/ Mount /\ Committed
  \/ \E ok \in BOOLEAN : LoadLeadsResolve(ok) /\ Committed
  \/ \E ok \in BOOLEAN : LoadOpportunitiesResolve(ok) /\ Committed
  \/ \E u \in UpdateSets, o \in BOOLEAN :
       UpdateLeadCall(MissingId, u, o) /\ Committed
  \/ ConvertCall(MissingId) /\ Committed
  \/ ClearError /\ Committed
  \/ AutoClearFires
  \/ \E d \in Delays \cup {timer} : Advance(d)

TimerSpec == Init /\ [][TimerNext]_vars

(***************************************************************************)
(* Filter criteria and localStorage (FilterSpec)                           *)
(***************************************************************************)
\* An item of localStorage is a text.  A text that JSON.parse accepts as an
\* object is modelled by its members (name and value, in the order of the
\* text); kind tells the other texts apart: "null" (no item), "empty" (the
\* empty string) and "invalid" (a text that JSON.parse rejects).

\* the order in which the criteria object enumerates its properties
FilterKeys == <<"search", "status", "sortBy", "sortOrder">>

\* the members of obj in the order of keys
RECURSIVE MembersOf(_, _)
MembersOf(obj, keys) ==
  IF keys = <<>> THEN <<>>
  ELSE IF Head(keys) \in DOMAIN obj
       THEN <<<<Head(keys), obj[Head(keys)]>>>> \o MembersOf(obj, Tail(keys))
       ELSE MembersOf(obj, Tail(keys))

\* variant: properties with an empty-string value are left out of the text
JSONStringify_SkipEmpty(obj) ==
  [kind |-> "object",
   members |-> SelectSeq(MembersOf(obj, FilterKeys), LAMBDA m : m[2] # "")]

\* JSON.stringify(obj) of an object with string values
JSONStringify(obj) ==
  [kind |-> "object", members |-> MembersOf(obj, FilterKeys)]

\* JSON.parse(text) of an object text: one property for each name, with the
\* value of the last member of that name
JSONParse(text) ==
  LET m == text.members
      names == {m[i][1] : i \in 1..Len(m)}
      lastOf(k) == CHOOSE i \in 1..Len(m) :
                     m[i][1] = k /\ \A j \in (i + 1)..Len(m) : m[j][1] # k
  IN [k \in names |-> m[lastOf(k)][2]]

\* what the key may hold when the provider is constructed: nothing, the
\* empty string, a text that is not JSON, the criteria that an earlier
\* session saved, and a JSON object that lacks criteria fields
StoredTexts ==
  { NoItem,
    [kind |-> "empty", members |-> <<>>],
    [kind |-> "invalid", members |-> <<>>],
    JSONStringify([search |-> "darcy", status |-> "new",
                   sortBy |-> "name", sortOrder |-> "asc"]),
    [kind |-> "object", members |-> << <<"status", "new">> >>] }

\* loadFiltersFromStorage(), saved being the item under the key
loadFiltersFromStorage(saved) ==
  IF saved.kind \in {"null", "empty"} THEN DefaultFilters
  ELSE IF saved.kind = "invalid" THEN DefaultFilters
  ELSE JSONParse(saved)

\* the lazy initial state of useReducer
InitialState(saved) ==
  [leads |-> <<>>, opportunities |-> <<>>, selectedLead |-> NoLead,
   isLoading |-> FALSE, error |-> Null,
   filters |-> loadFiltersFromStorage(saved)]

\* the partial criteria that callers pass to setFilters: the 'Clean filters'
\* button of LeadsList and the four inputs of LeadFilters
FilterSets ==
  { [search |-> "", status |-> "all"],
    [search |-> "Elizabeth"],
    [status |-> "contacted"],
    [sortBy |-> "name"],
    [sortOrder |-> "asc"] }

\* the call record that carries the arguments and the outcome of setFilters
\* in the history variable
FiltersCall(filters, writeOk) ==
  [Idle EXCEPT !.updates = filters,
               !.result = IF writeOk THEN "stored" ELSE "writeFailed"]

\* variant: setItem is not wrapped in try/catch, a failing write ends the
\* handler before the dispatch
SetFilters_Uncaught(filters, writeOk) ==
  LET newFilters == Spread(state.filters, filters) IN
  /\ NoMicrotask
  /\ storage' = IF writeOk THEN JSONStringify(newFilters) ELSE storage
  /\ state' = IF writeOk THEN Dispatch(state, "SET_FILTERS", newFilters)
                         ELSE state
  /\ last' = Event("setFilters", 0, "none", FiltersCall(filters, writeOk))
  /\ UNCHANGED <<calls, nOps, loadLeads, loadOpps>>

\* variant: the partial criteria are merged into the defaults instead of
\* the current criteria
SetFilters_OntoDefaults(filters, writeOk) ==
  LET newFilters == Spread(DefaultFilters, filters) IN
  /\ NoMicrotask
  /\ storage' = IF writeOk THEN JSONStringify(newFilters) ELSE storage
  /\ state' = Dispatch(state, "SET_FILTERS", newFilters)
  /\ last' = Event("setFilters", 0, "none", FiltersCall(filters, writeOk))
  /\ UNCHANGED <<calls, nOps, loadLeads, loadOpps>>

\* setFilters(filters): localStorage.setItem succeeds (writeOk) or throws,
\* which is caught and logged
SetFilters(filters, writeOk) ==
  LET newFilters == Spread(state.filters, filters) IN
  /\ NoMicrotask
  /\ storage' = IF writeOk THEN JSONStringify(newFilters) ELSE storage
  /\ state' = Dispatch(state, "SET_FILTERS", newFilters)
  /\ last' = Event("setFilters", 0, "none", FiltersCall(filters, writeOk))
  /\ UNCHANGED <<calls, nOps, loadLeads, loadOpps>>

\* the page is loaded again: a new provider is constructed over the same
\* localStorage
Reload ==
  /\ state' = InitialState(storage)
  /\ calls' = [s \in Slots |-> Idle]
  /\ nOps' = 0
  /\ loadLeads' = "init"
  /\ loadOpps' = "init"
  /\ last' = Event("init", 0, "none", Idle)
  /\ UNCHANGED storage

FilterInit ==
  /\ storage \in StoredTexts
  /\ state = InitialState(storage)
  /\ calls = [s \in Slots |-> Idle]
  /\ nOps = 0
  /\ loadLeads = "init"
  /\ loadOpps = "init"
  /\ last = Event("init", 0, "none", Idle)
  /\ timer = NoTimer
  /\ errorLog = NoErrorYet
  /\ view = <<>>
  /\ card = NoCard

FilterNext ==
  \/ Mount /\ UNCHANGED env
  \/ \E ok \in BOOLEAN : LoadLeadsResolve(ok) /\ UNCHANGED env
  \/ \E ok \in BOOLEAN : LoadOpportunitiesResolve(ok) /\ UNCHANGED env
  \/ \E f \in FilterSets, ok \in BOOLEAN :
       SetFilters(f, ok) /\ UNCHANGED <<timer, errorLog, view, card>>
  \/ Reload /\ UNCHANGED <<timer, errorLog, view, card>>

FilterSpec == FilterInit /\ [][FilterNext]_vars

(***************************************************************************)
(* The list derived by LeadsList (ViewSpec)                                *)
(***************************************************************************)
\* records that /leads.json may serve: two have the same score, two the
\* same company, two names differ only in case
ViewRecords ==
  { [id |-> "1", name |-> "Ann", company |-> "Zeta", email |-> "",
     score |-> 90, status |-> "new"],
    [id |-> "2", name |-> "bob", company |-> "Acme", email |-> "",
     score |-> 90, status |-> "contacted"],
    [id |-> "3", name |-> "Cy", company |-> "Acme", email |-> "",
     score |-> 70, status |-> "new"],
    [id |-> "4", name |-> "ann", company |-> "Beta", email |-> "",
     score |-> 80, status |-> "new"] }

\* the collections of up to MaxLeads of these records, in every order
ViewCollections ==
  { c \in UNION {[1..n -> ViewRecords] : n \in 0..MaxLeads} :
      \A i, j \in 1..Len(c) : i # j => c[i].id # c[j].id }

\* the criteria that the inputs of LeadFilters can produce over these
\* records
ViewCriteria ==
  [search : {"", "an", "AC", "b"}, status : {"all", "new", "contacted"},
   sortBy : {"score", "name", "company"}, sortOrder : {"asc", "desc"}]

\* the characters of the strings above
Chars(str) ==
  CASE str = "" -> <<>>
    [] str = "Ann" -> <<"A", "n", "n">>
    [] str = "ann" -> <<"a", "n", "n">>
    [] str = "bob" -> <<"b", "o", "b">>
    [] str = "Cy" -> <<"C", "y">>
    [] str = "Zeta" -> <<"Z", "e", "t", "a">>
    [] str = "Acme" -> <<"A", "c", "m", "e">>
    [] str = "Beta" -> <<"B", "e", "t", "a">>
    [] str = "an" -> <<"a", "n">>
    [] str = "AC" -> <<"A", "C">>
    [] str = "b" -> <<"b">>

LowerCase == <<"a", "b", "c", "e", "m", "n", "o", "t", "y", "z">>
UpperCase == <<"A", "B", "C", "E", "M", "N", "O", "T", "Y", "Z">>

IsUpper(ch) == \E i \in 1..Len(UpperCase) : UpperCase[i] = ch

\* the position of the letter in the alphabet of the strings above
Rank(ch) ==
  CHOOSE i \in 1..Len(LowerCase) : LowerCase[i] = ch \/ UpperCase[i] = ch

\* String.prototype.toLowerCase, on the characters
ToLowerCase(chars) ==
  [i \in 1..Len(chars) |->
     IF IsUpper(chars[i]) THEN LowerCase[Rank(chars[i])] ELSE chars[i]]

\* String.prototype.includes, on the characters
Includes(chars, part) ==
  \E k \in 0..(Len(chars) - Len(part)) :
    \A i \in 1..Len(part) : chars[k + i] = part[i]

\* comparison of two sequences of numbers, element by element: -1, 0 or 1
RECURSIVE LexCompare(_, _)
LexCompare(x, y) ==
  IF x = <<>> /\ y = <<>> THEN 0
  ELSE IF x = <<>> THEN -1
  ELSE IF y = <<>> THEN 1
  ELSE IF Head(x) < Head(y) THEN -1
  ELSE IF Head(x) > Head(y) THEN 1
  ELSE LexCompare(Tail(x), Tail(y))

\* String.prototype.localeCompare for strings of letters: the letters
\* decide whatever their case; between strings with the same letters the
\* case decides, lower case first
LocaleCompare(a, b) ==
  LET letters(str) == [i \in 1..Len(Chars(str)) |-> Rank(Chars(str)[i])]
      cases(str) == [i \in 1..Len(Chars(str)) |->
                       IF IsUpper(Chars(str)[i]) THEN 1 ELSE 0]
      byLetters == LexCompare(letters(a), letters(b))
  IN IF byLetters # 0 THEN byLetters ELSE LexCompare(cases(a), cases(b))

\* variant: the search looks at the name only
MatchesSearch_NameOnly(lead, search) ==
  LET searchLower == ToLowerCase(Chars(search)) IN
  Includes(ToLowerCase(Chars(lead.name)), searchLower)

\* the callback of the search filter
MatchesSearch(lead, search) ==
  LET searchLower == ToLowerCase(Chars(search)) IN
  \/ Includes(ToLowerCase(Chars(lead.name)), searchLower)
  \/ Includes(ToLowerCase(Chars(lead.company)), searchLower)

\* variant: strings are compared the same way for both sort orders
CompareLeads_StringsAscending(a, b, filters) ==
  LET aValue == a[filters.sortBy]
      bValue == b[filters.sortBy]
  IN IF filters.sortBy # "score"
     THEN LocaleCompare(aValue, bValue)
     ELSE IF filters.sortOrder = "desc" THEN bValue - aValue
          ELSE aValue - bValue

\* the comparator of the sort: score is the numeric field, the other
\* fields hold strings
CompareLeads(a, b, filters) ==
  LET aValue == a[filters.sortBy]
      bValue == b[filters.sortBy]
  IN IF filters.sortBy # "score"
     THEN IF filters.sortOrder = "desc" THEN LocaleCompare(bValue, aValue)
          ELSE LocaleCompare(aValue, bValue)
     ELSE IF filters.sortOrder = "desc" THEN bValue - aValue
          ELSE aValue - bValue

\* Array.prototype.sort is stable: an element goes before the first element
\* that the comparator puts after it
RECURSIVE InsertLead(_, _, _)
InsertLead(sorted, lead, filters) ==
  IF sorted = <<>> THEN <<lead>>
  ELSE IF CompareLeads(Head(sorted), lead, filters) > 0
       THEN <<lead>> \o sorted
       ELSE <<Head(sorted)>> \o InsertLead(Tail(sorted), lead, filters)

RECURSIVE SortLeads(_, _)
SortLeads(leads, filters) ==
  IF leads = <<>> THEN <<>>
  ELSE InsertLead(SortLeads(SubSeq(leads, 1, Len(leads) - 1), filters),
                  leads[Len(leads)], filters)

\* the useMemo callback of LeadsList
filteredLeads(leads, filters) ==
  LET searched == IF filters.search # ""
                  THEN SelectSeq(leads, LAMBDA lead :
                                   MatchesSearch(lead, filters.search))
                  ELSE leads
      filtered == IF filters.status # "all"
                  THEN SelectSeq(searched, LAMBDA lead :
                                   lead.status = filters.status)
                  ELSE searched
  IN SortLeads(filtered, filters)

\* LeadsList renders: the list is computed from a copy of the records
RenderLeadsList ==
  /\ view' = filteredLeads(state.leads, state.filters)
  /\ last' = Event("render", 0, "none", Idle)
  /\ UNCHANGED <<state, calls, nOps, loadLeads, loadOpps>>

\* the records have been loaded and criteria chosen
ViewInit ==
  /\ \E leads \in ViewCollections, filters \in ViewCriteria :
       state = [leads |-> leads, opportunities |-> <<>>,
                selectedLead |-> NoLead, isLoading |-> FALSE,
                error |-> Null, filters |-> filters]
  /\ calls = [s \in Slots |-> Idle]
  /\ nOps = 0
  /\ loadLeads = "done"
  /\ loadOpps = "done"
  /\ last = Event("leadsLoaded", 0, "none", Idle)
  /\ storage = NoItem
  /\ timer = NoTimer
  /\ errorLog = NoErrorYet
  /\ view = <<>>
  /\ card = NoCard

ViewNext == RenderLeadsList /\ UNCHANGED <<storage, timer, errorLog, card>>

ViewSpec == ViewInit /\ [][ViewNext]_vars

(***************************************************************************)
(* The edit form of a lead card (CardSpec)                                 *)
(***************************************************************************)
\* LeadsList keeps the id of the one card that is in edit mode; a card
\* keeps the edited fields and the field errors, and handleEdit writes both
\* whenever the card enters edit mode.

\* the texts typed into the email field (those of the component's tests)
EmailInputs ==
  {"newemail@test.com", "invalid-email", ""}

\* the options of the status select
StatusOptions == {"new", "contacted", "qualified"}

\* the characters of the email texts of the model
EmailChars(str) ==
  CASE str = "" -> <<>>
    [] str = "newemail@test.com" ->
         <<"n", "e", "w", "e", "m", "a", "i", "l", "@", "t", "e", "s", "t",
         ".", "c", "o", "m">>
    [] str = "invalid-email" ->
         <<"i", "n", "v", "a", "l", "i", "d", "-", "e", "m", "a", "i",
         "l">>
    [] str = "elizabeth@prideandprejudice.com" ->
         <<"e", "l", "i", "z", "a", "b", "e", "t", "h", "@", "p", "r", "i",
         "d", "e", "a", "n", "d", "p", "r", "e", "j", "u", "d", "i", "c",
         "e", ".", "c", "o", "m">>
    [] str = "darcy@prideandprejudice.com" ->
         <<"d", "a", "r", "c", "y", "@", "p", "r", "i", "d", "e", "a", "n",
         "d", "p", "r", "e", "j", "u", "d", "i", "c", "e", ".", "c", "o",
         "m">>

Letters ==
  {"a", "b", "c", "d", "e", "f", "g", "h", "i", "j", "k", "l", "m", "n", "o",
   "p", "q", "r", "s", "t", "u", "v", "w", "x", "y", "z", "A", "B", "C", "D",
   "E", "F", "G", "H", "I", "J", "K", "L", "M", "N", "O", "P", "Q", "R", "S",
   "T", "U", "V", "W", "X", "Y", "Z"}

Digits == {"0", "1", "2", "3", "4", "5", "6", "7", "8", "9"}

\* [^<>()[\]\\.,;:\s@"]
AtomChar(ch) ==
  ch \notin {"<", ">", "(", ")", "[", "]", "\\", ".", ",", ";", ":", " ",
             "@", "\""}

\* [a-zA-Z\-0-9]
LabelChar(ch) == ch \in Letters \cup Digits \cup {"-"}

\* atom(\.atom)* of the local part: atoms of one character or more,
\* separated by single dots
LocalPart(chars) ==
  /\ chars # <<>>
  /\ \A i \in 1..Len(chars) : chars[i] = "." \/ AtomChar(chars[i])
  /\ chars[1] # "." /\ chars[Len(chars)] # "."
  /\ \A i \in 1..(Len(chars) - 1) : ~(chars[i] = "." /\ chars[i + 1] = ".")

\* (label\.)+[a-zA-Z]{2,} of the domain: labels of one character or more,
\* each followed by a dot, then two letters or more
DomainPart(chars) ==
  \E p \in 1..Len(chars) :
    /\ chars[p] = "."
    /\ Len(chars) - p >= 2
    /\ \A i \in (p + 1)..Len(chars) : chars[i] \in Letters
    /\ chars[1] # "."
    /\ \A i \in 1..p : chars[i] = "." \/ LabelChar(chars[i])
    /\ \A i \in 1..(p - 1) : ~(chars[i] = "." /\ chars[i + 1] = ".")

\* validateEmail(email) for a string: emailRegex.test(email).  The quoted
\* local part and the bracketed address literal of the pattern need a
\* double quote or a bracket, which no text of the model holds.
validateEmail(email) ==
  LET chars == EmailChars(email) IN
  \E i \in 1..Len(chars) :
    /\ chars[i] = "@"
    /\ LocalPart(SubSeq(chars, 1, i - 1))
    /\ DomainPart(SubSeq(chars, i + 1, Len(chars)))

\* the lead prop of the card in edit mode
EditedLead == FindLead(state.leads, card.editingLead)

\* handleEdit of the card of lead: the form takes the record's values, the
\* errors are emptied, onEdit sets editingLead
HandleEdit(lead) ==
  /\ card.editingLead # lead.id
  /\ NoMicrotask
  /\ card' = [editingLead |-> lead.id,
              editData |-> [status |-> lead.status, email |-> lead.email],
              errors |-> [email |-> Null]]
  /\ last' = Event("edit", 0, lead.id, Idle)
  /\ UNCHANGED <<state, calls, nOps, loadLeads, loadOpps>>

\* onChange of the email input
ChangeEmail(value) ==
  /\ card.editingLead # Null
  /\ NoMicrotask
  /\ card' = [card EXCEPT !.editData = Spread(@, [email |-> value])]
  /\ last' = Event("changeEmail", 0, card.editingLead, Idle)
  /\ UNCHANGED <<state, calls, nOps, loadLeads, loadOpps>>

\* onChange of the status select
ChangeStatus(value) ==
  /\ card.editingLead # Null
  /\ NoMicrotask
  /\ card' = [card EXCEPT !.editData = Spread(@, [status |-> value])]
  /\ last' = Event("changeStatus", 0, card.editingLead, Idle)
  /\ UNCHANGED <<state, calls, nOps, loadLeads, loadOpps>>

\* variant: Save sends the form without validating it
HandleSave_Unvalidated ==
  /\ card.editingLead # Null
  /\ UpdateLeadCall(EditedLead.id, card.editData, TRUE)
  /\ card' = [card EXCEPT !.errors = [email |-> Null], !.editingLead = Null]

\* handleSave: an invalid email sets the field error and returns; otherwise
\* updateLead(lead.id, editData) with the default optimistic option, the
\* errors are emptied and onSave ends edit mode
HandleSave ==
  /\ card.editingLead # Null
  /\ IF ~validateEmail(card.editData.email)
     THEN /\ NoMicrotask
          /\ card' = [card EXCEPT !.errors = [email |-> "Invalid email"]]
          /\ last' = Event("saveRejected", 0, card.editingLead, Idle)
          /\ UNCHANGED <<state, calls, nOps, loadLeads, loadOpps>>
     ELSE /\ UpdateLeadCall(EditedLead.id, card.editData, TRUE)
          /\ card' = [card EXCEPT !.errors = [email |-> Null],
                                  !.editingLead = Null]

\* handleCancel: the form takes the record's values again, the errors are
\* emptied, onCancelEdit ends edit mode
HandleCancel ==
  /\ card.editingLead # Null
  /\ NoMicrotask
  /\ card' = [editingLead |-> Null,
              editData |-> [status |-> EditedLead.status,
                            email |-> EditedLead.email],
              errors |-> [email |-> Null]]
  /\ last' = Event("cancel", 0, card.editingLead, Idle)
  /\ UNCHANGED <<state, calls, nOps, loadLeads, loadOpps>>

\* what the form leaves alone
formEnv == <<storage, timer, errorLog, view>>

CardNext ==
  \/ Mount /\ UNCHANGED env
  \/ \E ok \in BOOLEAN : LoadLeadsResolve(ok) /\ UNCHANGED env
  \/ \E ok \in BOOLEAN : LoadOpportunitiesResolve(ok) /\ UNCHANGED env
  \/ \E s \in Slots, ok \in BOOLEAN : UpdateLeadResolve(s, ok) /\ UNCHANGED env
  \/ \E i \in 1..Len(state.leads) :
       HandleEdit(state.leads[i]) /\ UNCHANGED formEnv
  \/ \E value \in EmailInputs : ChangeEmail(value) /\ UNCHANGED formEnv
  \/ \E value \in StatusOptions : ChangeStatus(value) /\ UNCHANGED formEnv
  \/ HandleSave /\ UNCHANGED formEnv
  \/ HandleCancel /\ UNCHANGED formEnv

CardSpec == Init /\ [][CardNext]_vars

(***************************************************************************)
(* Vocabulary of the properties                                            *)
(***************************************************************************)
\* number of opportunities that refer to record id
OpportunitiesOf(opportunities, id) ==
  Cardinality({i \in 1..Len(opportunities) : opportunities[i].leadId = id})

\* a record with this id is in the collection
RecordExists(leads, id) == \E i \in 1..Len(leads) : leads[i].id = id

\* the record with this id (ids are unique in the collection)
RecordOf(leads, id) == leads[CHOOSE i \in 1..Len(leads) : leads[i].id = id]

\* obj is base with exactly the fields of updates overwritten
MergedFrom(obj, base, updates) ==
  /\ DOMAIN obj = DOMAIN base
  /\ \A f \in DOMAIN base :
       obj[f] = IF f \in DOMAIN updates THEN updates[f] ELSE base[f]

\* the step merges updates into record id and into the mirror when it has
\* that id, and changes no other record
MergeStep(id, updates) ==
  /\ Len(state'.leads) = Len(state.leads)
  /\ \A i \in 1..Len(state.leads) :
       IF state.leads[i].id = id
       THEN MergedFrom(state'.leads[i], state.leads[i], updates)
       ELSE state'.leads[i] = state.leads[i]
  /\ IF state.selectedLead.id = id
     THEN MergedFrom(state'.selectedLead, state.selectedLead, updates)
     ELSE state'.selectedLead = state.selectedLead

\* the step is an invocation of convertLeadToOpportunity(id)
ConvertInvoked(id) ==
  /\ last'.kind \in {"convertNotFound", "alreadyConverted", "convertStart"}
  /\ last'.id = id
  /\ <<state, calls, nOps, last>>' # <<state, calls, nOps, last>>

\* the step is an invocation of updateLead(id, ...)
UpdateInvoked(id) ==
  /\ last'.kind \in {"updateNotFound", "updateStart"}
  /\ last'.id = id
  /\ <<state, calls, nOps, last>>' # <<state, calls, nOps, last>>

\* the step starts no simulated remote call
NoCallStarted == calls' = calls /\ nOps' = nOps

(***************************************************************************)
(* C1: at most one Opportunity per source record, whatever the             *)
(* interleaving of convert invocations.                                    *)
(***************************************************************************)
C1_AtMostOneOpportunityPerLead ==
  \A id \in LeadIds : OpportunitiesOf(state.opportunities, id) <= 1

(***************************************************************************)
(* C2: convert(id) on an existing record that already has an Opportunity   *)
(* changes neither the opportunities nor the records, starts no simulated  *)
(* call, does not raise the loading flag and sets the error to 'Lead       *)
(* already converted into opportunity'.                                    *)
(***************************************************************************)
C2_AlreadyConverted ==
  [][\A id \in LeadIds :
       ( /\ ConvertInvoked(id)
         /\ RecordExists(state.leads, id)
         /\ OpportunitiesOf(state.opportunities, id) >= 1 )
       => /\ state'.opportunities = state.opportunities
          /\ state'.leads = state.leads
          /\ NoCallStarted
          /\ state'.isLoading = FALSE
          /\ state'.error = "Lead already converted into opportunity"]_vars

\* a convert invocation has been refused for a record with an Opportunity
C2_Witness ==
  /\ last.kind = "alreadyConverted"
  /\ RecordExists(state.leads, last.id)
  /\ OpportunitiesOf(state.opportunities, last.id) >= 1
  /\ state.error = "Lead already converted into opportunity"

(***************************************************************************)
(* C3: a conversion of an existing, not yet converted record whose two     *)
(* simulated calls succeed and that no other operation overlaps adds       *)
(* exactly one Opportunity, built from the record (leadId, accountName =   *)
(* company, probability = score, stage "qualification"), and leaves the    *)
(* record with status "qualified".                                         *)
(***************************************************************************)
C3_ConvertSucceeds ==
  ( /\ last.kind = "convertDone"
    /\ last.call.result = "ok"
    /\ last.call.solo
    /\ last.call.settled )
  => LET c == last.call
         opps == state.opportunities
         r == RecordOf(state.leads, c.id)
     IN /\ Len(opps) = c.n0 + 1
        /\ opps[Len(opps)].leadId = c.id
        /\ opps[Len(opps)].accountName = c.pre.company
        /\ opps[Len(opps)].accountName = r.company
        /\ opps[Len(opps)].probability = c.pre.score
        /\ opps[Len(opps)].probability = r.score
        /\ opps[Len(opps)].stage = "qualification"
        /\ r.status = "qualified"

\* the scenario of the specification: record "1" converted with no failure
C3_Witness ==
  /\ last.kind = "convertDone"
  /\ last.call.result = "ok"
  /\ last.call.solo
  /\ last.call.settled
  /\ last.id = "1"
  /\ OpportunitiesOf(state.opportunities, "1") = 1
  /\ \E i \in 1..Len(state.opportunities) :
       /\ state.opportunities[i].leadId = "1"
       /\ state.opportunities[i].accountName = "Pride and Prejudice Ltd"
       /\ state.opportunities[i].probability = 95
  /\ RecordOf(state.leads, "1").status = "qualified"

(***************************************************************************)
(* C4: a conversion whose first simulated call fails appends no            *)
(* Opportunity and changes no record, neither when it is invoked nor when  *)
(* the call fails; the failure sets the error to the failure message and   *)
(* leaves the loading flag cleared.                                        *)
(***************************************************************************)
C4_FirstCallFails ==
  [][\A s \in Slots :
       /\ ( calls[s].kind = "idle" /\ calls'[s].kind = "convert" )
          => /\ state'.opportunities = state.opportunities
             /\ state'.leads = state.leads
       /\ ( calls[s].kind = "convert" /\ calls[s].pc = "call1" /\ calls'[s].kind = "idle" )
          => /\ state'.opportunities = state.opportunities
             /\ state'.leads = state.leads
             /\ state'.selectedLead = state.selectedLead
             /\ state'.error = "Failed to convert lead"
             /\ state'.isLoading = FALSE]_vars

\* a conversion has failed at its first call
C4_Witness ==
  /\ last.kind = "convertFailed"
  /\ state.error = "Failed to convert lead"
  /\ OpportunitiesOf(state.opportunities, last.id) = 0
  /\ RecordOf(state.leads, last.id) = last.call.pre

ConvertPending(s) == calls[s].kind = "convert"

LoadingOperationPending ==
  \/ loadLeads = "fetching"
  \/ \E s \in Slots : ConvertPending(s)

C6_LoadingCleared ==
  /\ \A s \in Slots : ConvertPending(s) ~> ~ConvertPending(s)
  /\ [][\A s \in Slots :
          (ConvertPending(s) /\ ~ConvertPending(s)') => state'.isLoading = FALSE]_vars
  /\ [](~LoadingOperationPending => state.isLoading = FALSE)

\* a conversion has run to its successful end and nothing is pending
C6_Witness ==
  /\ last.kind = "convertDone"
  /\ last.call.result = "ok"
  /\ ~LoadingOperationPending
  /\ state.isLoading = FALSE

(***************************************************************************)
(* C7: an optimistic updateLead on an existing record merges the fields    *)
(* into the record, and into the selected lead when it has that id, in the *)
(* invocation step itself; when the simulated call then fails and no other *)
(* update of that record was in flight meanwhile, the record equals its    *)
(* value before the invocation, the selected lead equals that value when   *)
(* it has that id (and is otherwise untouched by the failure), and the     *)
(* error is the failure message.                                           *)
(***************************************************************************)
OptimisticInvoked(s) ==
  calls[s].kind = "idle" /\ calls'[s].kind = "update" /\ calls'[s].optimistic

OptimisticFailed(s) ==
  /\ calls[s].kind = "update" /\ calls[s].optimistic /\ calls'[s].kind = "idle"
  /\ last'.kind = "updateFail"

C7_OptimisticRollback ==
  [][\A s \in Slots :
       /\ OptimisticInvoked(s)
          => /\ RecordExists(state.leads, calls'[s].id)
             /\ MergeStep(calls'[s].id, calls'[s].updates)
       /\ ( OptimisticFailed(s) /\ calls[s].alone )
          => /\ RecordOf(state'.leads, calls[s].id) = calls[s].pre
             /\ IF state'.selectedLead.id = calls[s].id
                THEN state'.selectedLead = calls[s].pre
                ELSE state'.selectedLead = state.selectedLead
             /\ state'.error = "Lead upgrade failed"]_vars

\* an optimistic update of the selected lead has failed and was rolled back
C7_Witness ==
  /\ last.kind = "updateFail"
  /\ last.call.optimistic
  /\ last.call.alone
  /\ state.selectedLead.id = last.id
  /\ state.selectedLead = last.call.pre
  /\ RecordOf(state.leads, last.id) = last.call.pre
  /\ state.error = "Lead upgrade failed"

(***************************************************************************)
(* C8: the successful resolution of an optimistic updateLead changes       *)
(* nothing of the application state.                                       *)
(***************************************************************************)
OptimisticSucceeded(s) ==
  /\ calls[s].kind = "update" /\ calls[s].optimistic /\ calls'[s].kind = "idle"
  /\ last'.kind = "updateOk"

C8_OptimisticSuccessIsSilent ==
  [][\A s \in Slots : OptimisticSucceeded(s) => state' = state]_vars

\* an optimistic update has been confirmed and its fields are in the record
C8_Witness ==
  /\ last.kind = "updateOk"
  /\ last.call.optimistic
  /\ last.call.alone
  /\ MergedFrom(RecordOf(state.leads, last.id), last.call.pre, last.call.updates)
  /\ RecordOf(state.leads, last.id) # last.call.pre

(***************************************************************************)
(* C9: a pessimistic updateLead (called directly or by a conversion)       *)
(* changes no record and no mirror when it is invoked; when its call       *)
(* succeeds the fields are merged into the record and the mirror and       *)
(* nothing else changes; when its call fails only the error is set (and    *)
(* the loading flag cleared): records and mirror keep their current value. *)
(***************************************************************************)
PessimisticInvoked(s) ==
  \/ calls[s].kind = "idle" /\ calls'[s].kind = "update" /\ ~calls'[s].optimistic
  \/ calls[s].pc = "call1" /\ calls'[s].pc = "call2"

PessimisticResolved(s, outcome) ==
  \/ /\ calls[s].kind = "update" /\ ~calls[s].optimistic /\ calls'[s].kind = "idle"
     /\ last'.kind = (IF outcome = "ok" THEN "updateOk" ELSE "updateFail")
  \/ calls[s].pc = "call2" /\ calls'[s].pc = "ret" /\ calls'[s].result = outcome

C9_PessimisticUpdate ==
  [][\A s \in Slots :
       /\ PessimisticInvoked(s)
          => /\ state'.leads = state.leads
             /\ state'.selectedLead = state.selectedLead
             /\ calls[s].kind = "idle" => state' = state
       /\ PessimisticResolved(s, "ok")
          => /\ MergeStep(calls[s].id, calls[s].updates)
             /\ state'.opportunities = state.opportunities
             /\ state'.error = state.error
             /\ state'.isLoading = state.isLoading
       /\ PessimisticResolved(s, "failed")
          => /\ state'.leads = state.leads
             /\ state'.selectedLead = state.selectedLead
             /\ state'.opportunities = state.opportunities
             /\ state'.error = "Lead upgrade failed"]_vars

\* a directly called pessimistic update has succeeded: the record, unchanged
\* while the call was in flight, now carries the fields
C9_Witness ==
  /\ last.kind = "updateOk"
  /\ ~last.call.optimistic
  /\ last.call.alone
  /\ MergedFrom(RecordOf(state.leads, last.id), last.call.pre, last.call.updates)
  /\ RecordOf(state.leads, last.id) # last.call.pre

(***************************************************************************)
(* C10: updateLead and convertLeadToOpportunity with an id that matches no *)
(* record only set the error to their not-found message: no simulated call *)
(* starts, the loading flag is not raised, records and opportunities are   *)
(* unchanged; convert reports not-found also when an Opportunity with that *)
(* leadId exists.                                                          *)
(***************************************************************************)
C10_NotFound ==
  [][\A id \in LeadIds :
       ~RecordExists(state.leads, id)
       => /\ UpdateInvoked(id)
             => /\ state'.error = "Lead não encontrado"
                /\ NoCallStarted
                /\ state'.isLoading = FALSE
                /\ state'.leads = state.leads
                /\ state'.opportunities = state.opportunities
          /\ ConvertInvoked(id)
             => /\ state'.error = "Lead not found"
                /\ NoCallStarted
                /\ state'.isLoading = FALSE
                /\ state'.leads = state.leads
                /\ state'.opportunities = state.opportunities]_vars

\* convert has reported not-found for an id that an Opportunity refers to
C10_Witness ==
  /\ last.kind = "convertNotFound"
  /\ ~RecordExists(state.leads, last.id)
  /\ OpportunitiesOf(state.opportunities, last.id) >= 1
  /\ state.error = "Lead not found"

(***************************************************************************)
(* C11: after the error is set to a message at time t and no other action  *)
(* occurs, the error is that message at every time before t + 5000 ms and  *)
(* is null from t + 5000 ms on (at t + 5000 ms exactly, the clearing       *)
(* callback is due before any more time passes).                           *)
(* Fails: a SET_ERROR with the message already displayed does not re-run   *)
(* the effect, so the timeout of the earlier error clears the later one.   *)
(***************************************************************************)
C11_ErrorLastsFiveSeconds ==
  errorLog.quiet =>
    /\ errorLog.age < AutoClearMs => state.error = errorLog.message
    /\ errorLog.age >= AutoClearMs => state.error = Null \/ timer = 0

(***************************************************************************)
(* C12: once a new error is set or the error is cleared explicitly, the    *)
(* timeout of the earlier error never clears the error field: no timeout   *)
(* is pending while the error is null, and the timeout that clears an      *)
(* error is the one scheduled for it.                                      *)
(* Fails for a new error with the same message as the displayed one.       *)
(***************************************************************************)
C12_StaleTimerSuppressed ==
  /\ [](state.error = Null => timer = NoTimer)
  /\ [][(timer = 0 /\ state.error # Null /\ state'.error = Null
         /\ last'.kind = "autoClear") => errorLog.own]_vars

\* the message that each failing task reports
MessageOf(kind) ==
  CASE kind = "leadsFailed" -> "Failed to load leads"
    [] kind = "updateNotFound" -> "Lead não encontrado"
    [] kind = "convertNotFound" -> "Lead not found"
    [] kind = "alreadyConverted" -> "Lead already converted into opportunity"
    [] kind = "convertFailed" -> "Failed to convert lead"
    [] kind \in {"updateFail", "statusFailed"} -> "Lead upgrade failed"

(***************************************************************************)
(* C13: there is one error field and no queue.  Every failure path of      *)
(* updateLead, of convertLeadToOpportunity and of the load of the records  *)
(* (not found, already converted, rejected simulated call, failed fetch)   *)
(* ends in a task that leaves its own message in the field, and every      *)
(* other task leaves the field as it is or null: so the field is always    *)
(* null or the message of the most recent set-error transition, and no     *)
(* failure leaves the store by another way.                                *)
(***************************************************************************)
C13_SingleErrorField ==
  [][IF last'.kind \in SetErrorKinds
     THEN state'.error = MessageOf(last'.kind)
     ELSE state'.error \in {state.error, Null}]_vars

\* the first simulated call of a conversion has been rejected while an
\* update is still in flight
C13_Witness ==
  /\ last.kind = "convertFailed"
  /\ state.error = "Failed to convert lead"
  /\ \E s \in Slots : calls[s].kind = "update" /\ calls[s].pc = "call"

(***************************************************************************)
(* Vocabulary of the filter properties                                     *)
(***************************************************************************)
CriteriaFields == {"search", "status", "sortBy", "sortOrder"}

\* the text is a JSON object that has exactly the properties of criteria
Denotes(text, criteria) ==
  /\ text.kind = "object"
  /\ {text.members[i][1] : i \in 1..Len(text.members)} = DOMAIN criteria
  /\ \A i \in 1..Len(text.members) :
       criteria[text.members[i][1]] = text.members[i][2]

\* the step is a call of setFilters whose write had this outcome
SetFiltersDone(outcome) ==
  /\ last'.kind = "setFilters"
  /\ last'.call.result = outcome

\* the criteria after the step are those before it with exactly the fields
\* of the partial criteria overwritten
CriteriaMerged(partial) ==
  /\ DOMAIN state'.filters = DOMAIN state.filters \cup DOMAIN partial
  /\ \A f \in DOMAIN partial : state'.filters[f] = partial[f]
  /\ \A f \in DOMAIN state.filters \ DOMAIN partial :
       state'.filters[f] = state.filters[f]

(***************************************************************************)
(* C14: when the provider is constructed, the criteria are exactly the     *)
(* defaults if the item under the key is absent or malformed, and the      *)
(* stored criteria otherwise; in both cases they have all four fields.     *)
(* Fails: any text that JSON.parse accepts is returned as it is, so a      *)
(* stored object that lacks fields becomes the criteria.                   *)
(***************************************************************************)
C14_InitialCriteria ==
  last.kind = "init" =>
    /\ storage.kind \in {"null", "empty", "invalid"}
         => state.filters = [search |-> "", status |-> "all",
                             sortBy |-> "score", sortOrder |-> "desc"]
    /\ storage.kind = "object" => Denotes(storage, state.filters)
    /\ DOMAIN state.filters = CriteriaFields

(***************************************************************************)
(* C15: round trip.  After a call of setFilters whose write succeeds, the  *)
(* text under the key denotes the criteria in memory and a provider        *)
(* constructed from that storage starts with the same criteria; this       *)
(* stays so until a write fails.                                           *)
(***************************************************************************)
InSync ==
  /\ Denotes(storage, state.filters)
  /\ InitialState(storage).filters = state.filters

C15_RoundTrip ==
  [][/\ SetFiltersDone("stored") => InSync'
     /\ (InSync /\ ~SetFiltersDone("writeFailed")) => InSync']_vars

\* criteria with another sort field have been stored and the page was
\* loaded again: the new provider starts with them
C15_Witness ==
  /\ last.kind = "init"
  /\ InSync
  /\ state.filters = [search |-> "", status |-> "all",
                      sortBy |-> "name", sortOrder |-> "desc"]

(***************************************************************************)
(* C16: when the write to localStorage fails inside setFilters, the        *)
(* criteria in memory still become the merged ones, the error field is as  *)
(* before and the handler runs to its end (its dispatch happens; the       *)
(* stored text is as before).                                              *)
(***************************************************************************)
C16_WriteFailure ==
  [][SetFiltersDone("writeFailed")
     => /\ CriteriaMerged(last'.call.updates)
        /\ state'.error = state.error
        /\ storage' = storage]_vars

\* a write has failed while an error was displayed: memory and storage
\* differ
C16_Witness ==
  /\ last.kind = "setFilters"
  /\ last.call.result = "writeFailed"
  /\ state.error = "Failed to load leads"
  /\ state.filters.search = "Elizabeth"
  /\ storage = NoItem

(***************************************************************************)
(* C17: setFilters(partial) is a shallow merge: every field of the partial *)
(* criteria takes the new value, every other field keeps its value, and    *)
(* records, opportunities, selection, error and loading are unchanged.     *)
(***************************************************************************)
C17_ShallowMerge ==
  [][last'.kind = "setFilters"
     => /\ CriteriaMerged(last'.call.updates)
        /\ state'.leads = state.leads
        /\ state'.opportunities = state.opportunities
        /\ state'.selectedLead = state.selectedLead
        /\ state'.error = state.error
        /\ state'.isLoading = state.isLoading]_vars

\* 'Clean filters' was pressed with records and opportunities loaded and a
\* sort order chosen before: search and status are reset, the order stays
C17_Witness ==
  /\ last.kind = "setFilters"
  /\ last.call.updates = [search |-> "", status |-> "all"]
  /\ state.filters = [search |-> "", status |-> "all",
                      sortBy |-> "name", sortOrder |-> "asc"]
  /\ state.leads # <<>>
  /\ state.opportunities # <<>>

(***************************************************************************)
(* Vocabulary of the load properties                                       *)
(***************************************************************************)
\* the step is the continuation of loadLeads with this outcome
LeadsLoadEnded(kind) ==
  /\ loadLeads = "fetching"
  /\ loadLeads' = "done"
  /\ last'.kind = kind

\* the step is the continuation of loadOpportunities after a failure
OpportunitiesLoadFailed ==
  /\ loadOpps = "fetching"
  /\ loadOpps' = "done"
  /\ last'.kind = "oppsFailed"

\* the opportunity was appended by a conversion, not served by the source
ConvertedHere(opp) ==
  /\ opp.id \in Slots
  /\ opp.stage = "qualification"

\* what the lead source does on failure and on success
LeadsLoadOutcome ==
  /\ LeadsLoadEnded("leadsFailed")
     => /\ state'.error = "Failed to load leads"
        /\ state'.isLoading = FALSE
        /\ state'.leads = <<>>
  /\ LeadsLoadEnded("leadsLoaded")
     => /\ state'.isLoading = FALSE
        /\ state'.leads = LeadsJson

(***************************************************************************)
(* C18 as stated: if the lead source fails, the error becomes 'Failed to   *)
(* load leads', the loading flag is false and the records stay empty; if   *)
(* the opportunity source fails, the error is unchanged and the            *)
(* opportunity collection stays empty; if the lead source succeeds, the    *)
(* loading flag set by the load is cleared as the records are installed.   *)
(* Fails in the second part: a conversion that ends before the             *)
(* opportunity fetch fails has appended an opportunity.                    *)
(***************************************************************************)
C18_InitialLoad ==
  [][/\ LeadsLoadOutcome
     /\ OpportunitiesLoadFailed
        => /\ state'.error = state.error
           /\ state'.opportunities = <<>>]_vars

(***************************************************************************)
(* C18 amended: as above, but when the opportunity source fails the        *)
(* opportunity collection, like every other field, is left as it is: it    *)
(* is empty unless a conversion has appended to it.                        *)
(***************************************************************************)
C18_InitialLoadAmended ==
  [][/\ LeadsLoadOutcome
     /\ OpportunitiesLoadFailed
        => /\ state' = state
           /\ \A i \in 1..Len(state'.opportunities) :
                ConvertedHere(state'.opportunities[i])]_vars

\* the opportunity fetch has failed after a conversion appended an
\* opportunity
C18_Witness ==
  /\ last.kind = "oppsFailed"
  /\ loadLeads = "done"
  /\ Len(state.opportunities) = 1
  /\ state.error = Null

(***************************************************************************)
(* Vocabulary of the view properties                                       *)
(***************************************************************************)
\* str contains part when the case of the letters is ignored
ContainsIgnoringCase(str, part) ==
  LET t == Chars(str)
      p == Chars(part)
  IN \E k \in 0..(Len(t) - Len(p)) :
       \A i \in 1..Len(p) : Rank(t[k + i]) = Rank(p[i])

\* the record passes the criteria
Selected(lead, criteria) ==
  /\ \/ criteria.search = ""
     \/ ContainsIgnoringCase(lead.name, criteria.search)
     \/ ContainsIgnoringCase(lead.company, criteria.search)
  /\ \/ criteria.status = "all"
     \/ lead.status = criteria.status

Occurrences(seq, x) == Cardinality({j \in 1..Len(seq) : seq[j] = x})

Position(seq, x) == CHOOSE i \in 1..Len(seq) : seq[i] = x

\* the names and companies of ViewRecords as a locale-aware comparison
\* orders them
CollationOrder == <<"Acme", "ann", "Ann", "Beta", "bob", "Cy", "Zeta">>

\* key a of this field does not come after key b
KeyLeq(field, a, b) ==
  IF field = "score" THEN a <= b
  ELSE Position(CollationOrder, a) <= Position(CollationOrder, b)

(***************************************************************************)
(* C19: for every collection and criteria, the derived list contains       *)
(* exactly the input records (each once, with the same values) whose name  *)
(* or company contains the search string whatever the case of the letters  *)
(* (an empty search matches all) and whose status is the one of the        *)
(* criteria (any status for "all"); computing it leaves the input          *)
(* collection and its order unchanged.                                     *)
(***************************************************************************)
C19_ViewContents ==
  [][last'.kind = "render"
     => /\ \A i \in 1..Len(state.leads) :
             Occurrences(view', state.leads[i])
               = IF Selected(state.leads[i], state.filters) THEN 1 ELSE 0
        /\ \A j \in 1..Len(view') :
             \E i \in 1..Len(state.leads) : state.leads[i] = view'[j]
        /\ state'.leads = state.leads]_vars

\* an upper-case search that matches two of three records by their company
\* only, one of which the status filter removes
C19_Witness ==
  /\ last.kind = "render"
  /\ state.filters.search = "AC"
  /\ state.filters.status = "new"
  /\ Len(state.leads) = 3
  /\ Len(view) = 1
  /\ view[1].name = "Cy"
  /\ \E i \in 1..3 : state.leads[i].name = "bob"

(***************************************************************************)
(* C20: the derived list is ordered by the sort field of the criteria,     *)
(* non-decreasing for "asc" and non-increasing for "desc" (numbers for     *)
(* score, string order for name and company), and records with equal sort  *)
(* keys are in the same relative order as in the input, in both            *)
(* directions.                                                             *)
(***************************************************************************)
C20_ViewOrder ==
  last.kind = "render" =>
    \A i, j \in 1..Len(view) :
      i < j =>
        LET a == view[i][state.filters.sortBy]
            b == view[j][state.filters.sortBy]
        IN /\ IF state.filters.sortOrder = "asc"
              THEN KeyLeq(state.filters.sortBy, a, b)
              ELSE KeyLeq(state.filters.sortBy, b, a)
           /\ a = b => Position(state.leads, view[i])
                         < Position(state.leads, view[j])

\* descending by company: the two records of the same company follow the
\* third one, in their input order
C20_Witness ==
  /\ last.kind = "render"
  /\ state.filters.sortBy = "company"
  /\ state.filters.sortOrder = "desc"
  /\ Len(state.leads) = 3
  /\ state.leads[1].id = "3"
  /\ state.leads[3].id = "2"
  /\ Len(view) = 3
  /\ view[1].company = "Zeta"
  /\ view[2].id = "3"
  /\ view[3].id = "2"

(***************************************************************************)
(* Vocabulary of the edit form properties                                  *)
(***************************************************************************)
\* the step invokes updateLead
UpdateLeadInvoked == last'.kind \in {"updateStart", "updateNotFound"}

\* the form holds an email that validateEmail rejects
InvalidForm == card.editingLead # Null /\ ~validateEmail(card.editData.email)

(***************************************************************************)
(* C21: from the edit form, Save invokes updateLead(lead.id, {status,      *)
(* email}) only when the edited email passes validateEmail; when it does   *)
(* not, updateLead is not invoked, the application state is unchanged and  *)
(* the card stays in edit mode with the field error 'Invalid email'.       *)
(***************************************************************************)
C21_SaveValidates ==
  [][/\ UpdateLeadInvoked =>
          /\ card.editingLead # Null
          /\ validateEmail(card.editData.email)
          /\ last'.kind = "updateStart"
          /\ last'.call.id = card.editingLead
          /\ last'.call.updates = [status |-> card.editData.status,
                                   email |-> card.editData.email]
     /\ InvalidForm =>
          /\ ~UpdateLeadInvoked
          /\ nOps' = nOps
          /\ last'.kind = "saveRejected" =>
               /\ state' = state
               /\ calls' = calls
               /\ card'.editingLead = card.editingLead
               /\ card'.errors = [email |-> "Invalid email"]]_vars

\* a Save with a valid email has invoked updateLead with the form's fields,
\* and a later Save on the other card has been rejected
C21_Witness ==
  /\ last.kind = "saveRejected"
  /\ card.editingLead = "2"
  /\ card.editData.email = "invalid-email"
  /\ card.errors.email = "Invalid email"
  /\ calls[1].kind = "update"
  /\ calls[1].id = "1"
  /\ calls[1].updates = [status |-> "qualified", email |-> "newemail@test.com"]
  /\ state.leads[1].email = "newemail@test.com"

(***************************************************************************)
(* Vocabulary of the conversion properties                                 *)
(***************************************************************************)
\* the step is task kind of the conversion in some slot, which was at
\* position pc before it
ConvertStep(kind, pc) ==
  /\ last'.kind = kind
  /\ last'.slot \in Slots
  /\ <<state, calls, last>>' # <<state, calls, last>>
  /\ calls[last'.slot].pc = pc

\* the status of record id, "" when there is none
StatusOf(leads, id) == FindLead(leads, id).status

(***************************************************************************)
(* C22: within one conversion the steps are ordered: loading set true,     *)
(* then the first simulated call resolves and the Opportunity is appended, *)
(* then the simulated call of the status update resolves and the status    *)
(* becomes "qualified", then loading is cleared; the conversion never sets *)
(* a record's status to "qualified" in a state where no Opportunity with   *)
(* that leadId exists.                                                     *)
(* Fails: the initial opportunity load can resolve between the append and  *)
(* the status update and replace the collection.                           *)
(***************************************************************************)
C22_ConversionOrder ==
  [][/\ ConvertStep("convertStart", "idle") =>
          /\ state'.isLoading = TRUE
          /\ state'.opportunities = state.opportunities
          /\ state'.leads = state.leads
          /\ calls'[last'.slot].pc = "call1"
     /\ ConvertStep("convertAdded", "call1") =>
          /\ Len(state'.opportunities) = Len(state.opportunities) + 1
          /\ state'.opportunities[Len(state'.opportunities)].leadId = last'.id
          /\ state'.leads = state.leads
          /\ calls'[last'.slot].pc = "call2"
     /\ last'.kind \in {"statusUpdated", "statusFailed"} =>
          ConvertStep(last'.kind, "call2")
     /\ ConvertStep("statusUpdated", "call2") =>
          /\ HasOpportunity(state.opportunities, last'.id)
          /\ StatusOf(state'.leads, last'.id) = "qualified"
          /\ HasOpportunity(state'.opportunities, last'.id)
          /\ calls'[last'.slot].pc = "ret"
     /\ last'.kind = "convertDone" =>
          /\ ConvertStep("convertDone", "ret")
          /\ state'.isLoading = FALSE]_vars

(***************************************************************************)
(* C23: once an Opportunity has been appended by ADD_OPPORTUNITY it is     *)
(* present and field for field unchanged in every later state, and the     *)
(* Opportunities keep their relative order: no step removes, replaces or   *)
(* edits it, the late-resolving initial opportunity load included.         *)
(* Fails: SET_OPPORTUNITIES replaces the collection whenever it arrives.   *)
(***************************************************************************)
C23_OpportunitiesKept ==
  [][\A i \in 1..Len(state.opportunities) :
       ConvertedHere(state.opportunities[i]) =>
         \E j \in 1..Len(state'.opportunities) :
           /\ state'.opportunities[j] = state.opportunities[i]
           /\ \A k \in 1..(i - 1) :
                \E l \in 1..(j - 1) :
                  state'.opportunities[l] = state.opportunities[k]]_vars

(***************************************************************************)
(* Vocabulary of the overlapping updates                                   *)
(***************************************************************************)
\* the step is the catch block of an optimistic updateLead: it dispatches
\* UPDATE_LEAD_ROLLBACK
RolledBack ==
  /\ last'.kind = "updateFail"
  /\ last'.call.optimistic
  /\ <<state, calls, last>>' # <<state, calls, last>>

\* no update of record id is in flight among the calls cs
Quiescent(cs, id) ==
  \A s \in Slots :
    ~(/\ cs[s].id = id
      /\ \/ cs[s].kind = "update"
         \/ cs[s].kind = "convert" /\ cs[s].pc \in {"call2", "ret"})

(***************************************************************************)
(* C24: a confirmed change to a record (a pessimistic update whose call    *)
(* succeeded, a conversion's transition to "qualified", or an optimistic   *)
(* update whose call succeeded) is never undone by the rollback of a       *)
(* different, overlapping optimistic update of the same record: a rollback *)
(* removes only the fields written by the update that failed.  Stated for  *)
(* the rollbacks after which no other update of the record is in flight,   *)
(* so that every other change to the record has been confirmed or taken    *)
(* back by its own call.                                                   *)
(* Fails: the rollback installs the whole record captured at invocation.   *)
(***************************************************************************)
C24_RollbackKeepsConfirmed ==
  [][RolledBack /\ Quiescent(calls', last'.id) =>
       \A f \in DOMAIN NoLead \ DOMAIN last'.call.updates :
         RecordOf(state'.leads, last'.id)[f] = RecordOf(state.leads, last'.id)[f]]_vars

(***************************************************************************)
(* C25: if several optimistic updates of the same record overlap in time   *)
(* and every one of them fails, then after the last rollback the record    *)
(* (and its selection mirror) equals its value before the first of those   *)
(* updates was invoked, for every order in which the failures resolve.     *)
(* Stated for two overlapping updates whose failures follow one another:   *)
(* the slots are used in the order of invocation, so the call in the lower *)
(* slot is the first.                                                      *)
(* Fails when the first update fails first: the rollback of the second     *)
(* installs a record that holds the fields of the first.                   *)
(***************************************************************************)
C25_AllFailedRestores ==
  [][/\ RolledBack
     /\ last.kind = "updateFail"
     /\ last.call.optimistic
     /\ last.id = last'.id
     /\ last.slot # last'.slot
     /\ ~last'.call.alone
     /\ Quiescent(calls', last'.id)
     => LET first == IF last.slot < last'.slot THEN last.call ELSE last'.call
        IN /\ RecordOf(state'.leads, last'.id) = first.pre
           /\ state'.selectedLead.id = last'.id =>
                state'.selectedLead = first.pre]_vars

(***************************************************************************)
(* C26: from the moment a conversion sets the loading flag until that      *)
(* conversion reaches its terminal branch, the loading flag is true in     *)
(* every intermediate state, whatever other transitions are applied in     *)
(* between.  Stated for the conversions that wait for one of their two     *)
(* simulated calls.                                                        *)
(* Fails: SET_ERROR and SET_LEADS clear the flag, and so does the end of   *)
(* another conversion.                                                     *)
(***************************************************************************)
C26_LoadingHeld ==
  (\E s \in Slots : calls[s].kind = "convert" /\ calls[s].pc \in {"call1", "call2"})
    => state.isLoading = TRUE

(***************************************************************************)
(* C27: selection-mirror consistency.  The selected record is only ever    *)
(* set to a record of the current collection or to none; then in every     *)
(* state reached by UPDATE_LEAD and UPDATE_LEAD_ROLLBACK transitions the   *)
(* selected record, when not none, is field for field equal to the         *)
(* collection's record with the same id.                                   *)
(***************************************************************************)
C27_MirrorConsistent ==
  state.selectedLead # NoLead =>
    /\ RecordExists(state.leads, state.selectedLead.id)
    /\ state.selectedLead = RecordOf(state.leads, state.selectedLead.id)

\* the selected record has been updated optimistically and rolled back to
\* a record that holds the fields of another update
C27_Witness ==
  /\ state.selectedLead.id = "1"
  /\ last.kind = "updateFail"
  /\ last.id = "1"
  /\ last.call.optimistic
  /\ last.call.updates = [status |-> "contacted", email |-> "lizzy@longbourn.org"]
  /\ state.selectedLead = last.call.originalLead
  /\ state.selectedLead.company = "Pemberley"
  /\ state.selectedLead.status = "new"

(***************************************************************************)
(* C28: every SET_ERROR with a non-null message starts a fresh window of   *)
(* 5000 ms: the displayed error is never auto-cleared earlier than 5000 ms *)
(* after the most recent SET_ERROR, also when the new message is identical *)
(* to the message already displayed.                                       *)
(* Fails for the identical message: the effect does not run again and the  *)
(* timeout of the earlier SET_ERROR fires.                                 *)
(***************************************************************************)
C28_FreshWindow ==
  last.kind = "autoClear" => errorLog.age >= AutoClearMs

(***************************************************************************)
(* Vocabulary of the reducer properties                                    *)
(***************************************************************************)
\* the payloads of UPDATE_LEAD for record id
UpdatePayloads(id) == {[id |-> id, updates |-> u] : u \in UpdateSets}

\* the payloads of UPDATE_LEAD_ROLLBACK for record id: a record of the
\* source with that id, as served or with a field set written
RollbackPayloads(id) ==
  LET served == {[LeadsJson[i] EXCEPT !.id = id] : i \in 1..Len(LeadsJson)}
  IN {[id |-> id, originalLead |-> snapshot] :
        snapshot \in served \cup {Spread(l, u) : l \in served, u \in UpdateSets}}

\* reduced differs from s at most in the record and the mirror with this id
OnlyRecordChanged(s, reduced, id) ==
  /\ Len(reduced.leads) = Len(s.leads)
  /\ \A i \in 1..Len(s.leads) :
       /\ reduced.leads[i].id = s.leads[i].id
       /\ s.leads[i].id # id => reduced.leads[i] = s.leads[i]
  /\ s.selectedLead.id # id => reduced.selectedLead = s.selectedLead
  /\ reduced.opportunities = s.opportunities
  /\ reduced.filters = s.filters
  /\ reduced.error = s.error
  /\ reduced.isLoading = s.isLoading
  /\ (~RecordExists(s.leads, id) /\ s.selectedLead.id # id) => reduced = s

(***************************************************************************)
(* C29: UPDATE_LEAD(id, fields) and UPDATE_LEAD_ROLLBACK(id, snapshot)     *)
(* change only the record whose id matches and the selected record when it *)
(* has that id: all other records, the order and length of the collection, *)
(* the opportunities, filters, error and loading flag are unchanged, and   *)
(* when no record and no selected record has that id the state is          *)
(* unchanged.  Checked for the reducer applied to every reachable state.   *)
(***************************************************************************)
C29_ReducerFrame ==
  \A id \in LeadIds :
    /\ \A payload \in UpdatePayloads(id) :
         OnlyRecordChanged(state, Dispatch(state, "UPDATE_LEAD", payload), id)
    /\ \A payload \in RollbackPayloads(id) :
         OnlyRecordChanged(state, Dispatch(state, "UPDATE_LEAD_ROLLBACK", payload), id)

\* an optimistic update of record "2" has been rolled back while record "1"
\* is selected and the collection holds an opportunity
C29_Witness ==
  /\ last.kind = "updateFail"
  /\ last.call.optimistic
  /\ last.id = "2"
  /\ state.selectedLead.id = "1"
  /\ Len(state.opportunities) = 1
  /\ state.leads[2] = last.call.originalLead
  /\ state.error = "Lead upgrade failed"

(***************************************************************************)
(* C30: the Opportunity created by a conversion has accountName equal to   *)
(* the source record's company and probability equal to its score as they  *)
(* are in the state in which the Opportunity is appended, also when the    *)
(* record was updated between the convert invocation and the resolution of *)
(* its simulated call.                                                     *)
(* Fails: the Opportunity is built from the record found at invocation.    *)
(***************************************************************************)
C30_CopiedAtAppend ==
  [][ConvertStep("convertAdded", "call1") =>
       LET appended == state'.opportunities[Len(state'.opportunities)]
           record == RecordOf(state.leads, last'.id)
       IN /\ appended.leadId = last'.id
          /\ appended.accountName = record.company
          /\ appended.probability = record.score]_vars

====
